---- MODULE Spec2Model ----
(***************************************************************************)
(* Model of the humanloop-cookbook chat agent with manual logging          *)
(* (node-instrumented-chat-agent, src/unnamed/part_002): the conversation  *)
(* loop, callModel, the calculator tool, and the log calls the agent makes *)
(* to the Humanloop service (the Sink).                                    *)
(***************************************************************************)
EXTENDS Integers, Sequences, FiniteSets, TLC

(* ---------- bounds ---------- *)
MaxTurns == 2      \* lines forwarded to the model in one conversation
MaxToolCalls == 2  \* tool calls requested by the model in one conversation

(* ---------- values the environment can supply ---------- *)
SystemPrompt == "You are a groovy 80s surfer dude helping with math and science."
ExitToken == "exit"
UserLines == {"exit", "2+1?"}
ToolName == "calculator"
\* tool_call arguments the model may request (quotients drawn here are exact)
ToolCallArgs ==
  { [operation |-> "add", num1 |-> 1, num2 |-> 2],
    [operation |-> "divide", num1 |-> 4, num2 |-> 2],
    [operation |-> "divide", num1 |-> 1, num2 |-> 0],
    [operation |-> "modulo", num1 |-> 1, num2 |-> 2] }
NoArgs == [operation |-> "", num1 |-> 0, num2 |-> 0]
\* message.content of a completion; "" stands for null/empty content
Contents == {"", "Radical!"}

Last(s) == s[Len(s)]

RECURSIVE SeqsUpTo(_, _)
SeqsUpTo(S, n) ==
  IF n = 0 THEN { <<>> }
  ELSE LET shorter == SeqsUpTo(S, n - 1)
       IN shorter \cup { Append(s, e) : s \in shorter, e \in S }

\* output.choices[0].message of the completion: either no tool_calls (text
\* reply) or an array of tool calls (an empty array is truthy in JS)
ModelOutputs ==
  { [hasToolCalls |-> FALSE, tool_calls |-> <<>>, content |-> c] : c \in Contents }
  \cup
  { [hasToolCalls |-> TRUE, tool_calls |-> tc, content |-> ""] :
      tc \in SeqsUpTo(ToolCallArgs, MaxToolCalls) }

SinkUnreachable == "SinkError: Unreachable"
ModelError == "OpenAI request failed"
DivideByZero == "Cannot divide by zero"
InvalidOperation == "Invalid operation"
ToolErrors == {DivideByZero, InvalidOperation}
TraceId == "trace-1"

(* ---------- pure functions ---------- *)

\* faulty variant of calculator: the divide case without its zero test
calculator_NoZeroTest(args) ==
  CASE args.operation = "add" ->
         [ok |-> TRUE, value |-> args.num1 + args.num2, error |-> ""]
    [] args.operation = "subtract" ->
         [ok |-> TRUE, value |-> args.num1 - args.num2, error |-> ""]
    [] args.operation = "multiply" ->
         [ok |-> TRUE, value |-> args.num1 * args.num2, error |-> ""]
    [] args.operation = "divide" ->
         IF args.num2 = 0
         THEN [ok |-> TRUE, value |-> 0, error |-> ""]
         ELSE [ok |-> TRUE, value |-> args.num1 \div args.num2, error |-> ""]
    [] OTHER -> [ok |-> FALSE, value |-> 0, error |-> InvalidOperation]

\* const calculator = ({operation, num1, num2}) => { switch (operation) ... }
calculator(args) ==
  CASE args.operation = "add" ->
         [ok |-> TRUE, value |-> args.num1 + args.num2, error |-> ""]
    [] args.operation = "subtract" ->
         [ok |-> TRUE, value |-> args.num1 - args.num2, error |-> ""]
    [] args.operation = "multiply" ->
         [ok |-> TRUE, value |-> args.num1 * args.num2, error |-> ""]
    [] args.operation = "divide" ->
         IF args.num2 = 0
         THEN [ok |-> FALSE, value |-> 0, error |-> DivideByZero]
         ELSE [ok |-> TRUE, value |-> args.num1 \div args.num2, error |-> ""]
    [] OTHER -> [ok |-> FALSE, value |-> 0, error |-> InvalidOperation]

\* JSON.stringify of a number
StringifyNumber(n) == ToString(n)

\* `[${toolCall.function.name}] ${result}`
ToolReply(name, result) == "[" \o name \o "] " \o ToString(result)

\* JSON.stringify(messages): the serialized history, one entry per message
RECURSIVE StringifyMessages(_)
StringifyMessages(msgs) ==
  IF msgs = <<>> THEN <<>>
  ELSE << <<"role", Head(msgs).role, "content", Head(msgs).content>> >>
       \o StringifyMessages(Tail(msgs))

Message(role, content) == [role |-> role, content |-> content]

\* faulty variant of ToolLog: the log is sent without the call's arguments
ToolLog_WithoutInputs(seq, args, result, traceId) ==
  [seq |-> seq, kind |-> "tool", path |-> "Chat Agent/Calculator",
   inputs |-> NoArgs, output |-> StringifyNumber(result),
   messages |-> <<>>, traceParentId |-> traceId]

ToolLog(seq, args, result, traceId) ==
  [seq |-> seq, kind |-> "tool", path |-> "Chat Agent/Calculator",
   inputs |-> args, output |-> StringifyNumber(result),
   messages |-> <<>>, traceParentId |-> traceId]

PromptLog(seq, msgs, reply, traceId) ==
  [seq |-> seq, kind |-> "prompt", path |-> "Chat Agent/Call Model",
   inputs |-> NoArgs, output |-> "",
   messages |-> Append(msgs, Message("assistant", reply)),
   traceParentId |-> traceId]

\* The synchronous part of callModel after the completion arrives: the loop
\* `for (const toolCall of tool_calls)`.  st carries the logs handed to
\* humanloop.tools.log so far, the calculator invocations made, llmResponse,
\* and the error thrown by calculator, if any ("" = none).
RECURSIVE ToolLoop(_, _, _)
ToolLoop(calls, traceId, st) ==
  IF calls = <<>> THEN st
  ELSE LET toolCallArgs == Head(calls)
           r == calculator(toolCallArgs)
           inv == [args |-> toolCallArgs, ok |-> r.ok,
                   value |-> r.value, error |-> r.error]
       IN IF ~r.ok
          THEN [st EXCEPT !.invoked = Append(@, inv), !.thrown = r.error]
          ELSE ToolLoop(Tail(calls), traceId,
                 [st EXCEPT
                    !.invoked = Append(@, inv),
                    !.logs = Append(@, ToolLog(st.nextSeq, toolCallArgs,
                                               r.value, traceId)),
                    !.nextSeq = @ + 1,
                    !.llmResponse = ToolReply(ToolName, r.value)])

(* ---------- state ---------- *)
VARIABLES
  pc,          \* position of conversation(): start, question, callModel,
               \* promptLog, closing, done, crashed, aborted
  error,       \* the error that ended the process ("" = none)
  messages,    \* const messages: MessageType[]
  traceId,     \* const traceId ("" before flows.log resolves)
  llmResponse, \* callModel's llmResponse while prompts.log is awaited
  printed,     \* lines written by console.log("Assistant:", response)
  inflight,    \* tool logs handed to humanloop.tools.log, promise not awaited
  nextSeq,     \* number of logs the agent has issued so far, plus one
  traceStatus, \* Sink: trace_status of the flow log: none, incomplete, complete
  traceOutput, \* Sink: output of the flow log
  sinkLogs,    \* Sink: child logs in the order they were received
  closeCount,  \* Sink: number of times the flow log was marked complete
  issued,      \* history: logs in the order the agent issued them
  invocations, \* history: calculator invocations, in call order
  lines,       \* history: lines read from the user
  modelCalls,  \* history: number of chat completion requests made
  ev,          \* evaluators: one evaluation of a log against a datapoint
  tpl,         \* populate_template: one call, its arguments and result
  calc,        \* calculator: one call, its arguments and result
  duo,         \* the two chat agents fed the same lines and completions
  pipe         \* ask_question_with_logging runs and the Sink's view of them

chatVars == <<pc, error, messages, traceId, llmResponse, printed, inflight,
              nextSeq, traceStatus, traceOutput, sinkLogs, closeCount, issued,
              invocations, lines, modelCalls>>
auxVars == <<ev, tpl, calc, duo, pipe>>
vars == <<chatVars, auxVars>>

agentVars == <<messages, traceId, llmResponse, printed>>
sinkVars == <<traceStatus, traceOutput, sinkLogs, closeCount>>
histVars == <<issued, invocations, lines, modelCalls>>

ChatInit ==
  /\ pc = "start"
  /\ error = ""
  /\ messages = << Message("system", SystemPrompt) >>
  /\ traceId = ""
  /\ llmResponse = ""
  /\ printed = <<>>
  /\ inflight = {}
  /\ nextSeq = 1
  /\ traceStatus = "none"
  /\ traceOutput = <<>>
  /\ sinkLogs = <<>>
  /\ closeCount = 0
  /\ issued = <<>>
  /\ invocations = <<>>
  /\ lines = <<>>
  /\ modelCalls = 0

\* a component that is not running in the specification at hand
Idle == [phase |-> "idle"]

Init ==
  /\ ChatInit
  /\ ev = Idle /\ tpl = Idle /\ calc = Idle /\ duo = Idle /\ pipe = Idle

Running == pc \notin {"done", "crashed", "aborted"}

(* ---------- conversation() ---------- *)

\* const traceId = (await humanloop.flows.log({path, startTime})).id
OpenTrace ==
  /\ pc = "start"
  /\ pc' = "question"
  /\ traceId' = TraceId
  /\ traceStatus' = "incomplete"
  /\ UNCHANGED <<auxVars, error, messages, llmResponse, printed, inflight, nextSeq,
                 traceOutput, sinkLogs, closeCount, histVars>>

\* the same call when the Sink fails: the awaited promise rejects
OpenTraceFails ==
  /\ pc = "start"
  /\ pc' = "crashed"
  /\ error' = SinkUnreachable
  /\ UNCHANGED <<auxVars, agentVars, inflight, nextSeq, sinkVars, histVars>>

\* faulty variant of ReadLine: the line is pushed to the history before the sentinel
\* is tested
ReadLine_PushBeforeTest(line) ==
  /\ pc = "question"
  /\ lines' = Append(lines, line)
  /\ messages' = Append(messages, Message("user", line))
  /\ IF line = ExitToken
     THEN pc' = "closing"
     ELSE Len(lines) < MaxTurns /\ pc' = "callModel"
  /\ UNCHANGED <<auxVars, error, traceId, llmResponse, printed, inflight, nextSeq,
                 sinkVars, issued, invocations, modelCalls>>

\* let userInput = await rl.question("You: "); if (userInput === "exit") ...
ReadLine(line) ==
  /\ pc = "question"
  /\ lines' = Append(lines, line)
  /\ IF line = ExitToken
     THEN /\ pc' = "closing"
          /\ UNCHANGED messages
     ELSE /\ Len(lines) < MaxTurns
          /\ messages' = Append(messages, Message("user", line))
          /\ pc' = "callModel"
  /\ UNCHANGED <<auxVars, error, traceId, llmResponse, printed, inflight, nextSeq,
                 sinkVars, issued, invocations, modelCalls>>

\* the user aborts the conversation: rl.question never yields a line
UserAborts ==
  /\ pc = "question"
  /\ pc' = "aborted"
  /\ UNCHANGED <<auxVars, error, agentVars, inflight, nextSeq, sinkVars, histVars>>

(* ---------- callModel(traceId, messages) ---------- *)

\* await openAIClient.chat.completions.create(...) resolves with `output`;
\* the tool loop runs synchronously, each humanloop.tools.log(...) promise is
\* dropped, then humanloop.prompts.log(...) is issued and awaited.  A throw
\* from calculator leaves callModel and conversation (no try/catch).
ModelReplies(output) ==
  /\ pc = "callModel"
  /\ Len(invocations) + Len(output.tool_calls) <= MaxToolCalls
  /\ modelCalls' = modelCalls + 1
  /\ LET st0 == [logs |-> <<>>, invoked |-> <<>>, nextSeq |-> nextSeq,
                 llmResponse |-> "", thrown |-> ""]
         st == IF output.hasToolCalls
               THEN ToolLoop(output.tool_calls, traceId, st0)
               ELSE [st0 EXCEPT !.llmResponse = output.content]
         toolLogs == { st.logs[i] : i \in 1..Len(st.logs) }
     IN /\ invocations' = invocations \o st.invoked
        /\ inflight' = inflight \cup toolLogs
        /\ IF st.thrown # ""
           THEN /\ pc' = "crashed"
                /\ error' = st.thrown
                /\ issued' = issued \o st.logs
                /\ nextSeq' = st.nextSeq
                /\ UNCHANGED llmResponse
           ELSE /\ pc' = "promptLog"
                /\ llmResponse' = st.llmResponse
                /\ issued' = (issued \o st.logs) \o
                     << PromptLog(st.nextSeq, messages, st.llmResponse, traceId) >>
                /\ nextSeq' = st.nextSeq + 1
                /\ UNCHANGED error
  /\ UNCHANGED <<auxVars, messages, traceId, printed, sinkVars, lines>>

\* the completion request itself rejects
ModelFails ==
  /\ pc = "callModel"
  /\ modelCalls' = modelCalls + 1
  /\ pc' = "crashed"
  /\ error' = ModelError
  /\ UNCHANGED <<auxVars, agentVars, inflight, nextSeq, sinkVars, issued, invocations,
                 lines>>

\* faulty variant of PromptLogged: an empty reply is printed but not pushed
PromptLogged_SkipsEmptyReply ==
  /\ pc = "promptLog"
  /\ sinkLogs' = Append(sinkLogs,
                   PromptLog(nextSeq - 1, messages, llmResponse, traceId))
  /\ printed' = Append(printed, llmResponse)
  /\ messages' = IF llmResponse = "" THEN messages
                 ELSE Append(messages, Message("assistant", llmResponse))
  /\ pc' = "question"
  /\ UNCHANGED <<auxVars, error, traceId, llmResponse, inflight, nextSeq, traceStatus,
                 traceOutput, closeCount, histVars>>

\* await humanloop.prompts.log(...) resolves: the Sink has the prompt log;
\* callModel returns llmResponse; conversation prints it and pushes it.
PromptLogged ==
  /\ pc = "promptLog"
  /\ sinkLogs' = Append(sinkLogs,
                   PromptLog(nextSeq - 1, messages, llmResponse, traceId))
  /\ printed' = Append(printed, llmResponse)
  /\ messages' = Append(messages, Message("assistant", llmResponse))
  /\ pc' = "question"
  /\ UNCHANGED <<auxVars, error, traceId, llmResponse, inflight, nextSeq, traceStatus,
                 traceOutput, closeCount, histVars>>

\* await humanloop.prompts.log(...) rejects: the rejection leaves callModel
PromptLogFails ==
  /\ pc = "promptLog"
  /\ pc' = "crashed"
  /\ error' = SinkUnreachable
  /\ UNCHANGED <<auxVars, agentVars, inflight, nextSeq, sinkVars, histVars>>

(* ---------- the floating humanloop.tools.log(...) promises ---------- *)

\* a tool log reaches the Sink, at any later time
ToolLogDelivered(log) ==
  /\ log \in inflight
  /\ inflight' = inflight \ {log}
  /\ sinkLogs' = Append(sinkLogs, log)
  /\ UNCHANGED <<auxVars, pc, error, agentVars, nextSeq, traceStatus, traceOutput,
                 closeCount, histVars>>

\* a tool log is not accepted: the dropped promise rejects.  Depending on the
\* runtime's unhandled-rejection mode the process ends (fatal) or only warns.
ToolLogFails(log, fatal) ==
  /\ log \in inflight
  /\ inflight' = inflight \ {log}
  /\ IF fatal /\ Running
     THEN pc' = "crashed" /\ error' = SinkUnreachable
     ELSE UNCHANGED <<pc, error>>
  /\ UNCHANGED <<auxVars, agentVars, nextSeq, sinkVars, histVars>>

(* ---------- closing the trace ---------- *)

\* faulty variant of CloseTrace: updateLog placed inside the while loop
CloseTrace_InsideLoop ==
  /\ pc = "closing"
  /\ traceStatus' = "complete"
  /\ traceOutput' = StringifyMessages(messages)
  /\ closeCount' = closeCount + 1
  /\ pc' = "question"
  /\ UNCHANGED <<auxVars, error, agentVars, inflight, nextSeq, sinkLogs, histVars>>

\* await humanloop.flows.updateLog(traceId, {traceStatus: "complete", output})
CloseTrace ==
  /\ pc = "closing"
  /\ traceStatus' = "complete"
  /\ traceOutput' = StringifyMessages(messages)
  /\ closeCount' = closeCount + 1
  /\ pc' = "done"
  /\ UNCHANGED <<auxVars, error, agentVars, inflight, nextSeq, sinkLogs, histVars>>

CloseTraceFails ==
  /\ pc = "closing"
  /\ pc' = "crashed"
  /\ error' = SinkUnreachable
  /\ UNCHANGED <<auxVars, agentVars, inflight, nextSeq, sinkVars, histVars>>

Next ==
  \/ OpenTrace
  \/ OpenTraceFails
  \/ \E line \in UserLines : ReadLine(line)
  \/ UserAborts
  \/ \E output \in ModelOutputs : ModelReplies(output)
  \/ ModelFails
  \/ PromptLogged
  \/ PromptLogFails
  \/ \E log \in inflight : ToolLogDelivered(log)
  \/ \E log \in inflight, fatal \in BOOLEAN : ToolLogFails(log, fatal)
  \/ CloseTrace
  \/ CloseTraceFails

Spec == Init /\ [][Next]_vars

TypeOK ==
  /\ pc \in {"start", "question", "callModel", "promptLog", "closing",
             "done", "crashed", "aborted"}
  /\ closeCount \in 0..1
  /\ nextSeq \in 1..(MaxTurns + MaxToolCalls + 1)

(***************************************************************************)
(* The evaluators: node-evaluate-medqa/exact.match.ts and                  *)
(* ts-evaluating-agent/levenshtein.ts.  Text is a sequence of characters.  *)
(***************************************************************************)
MaxPieces == 3        \* pieces a generated text is assembled from
MaxTargetPieces == 2  \* pieces a datapoint target is assembled from

BackTick == "<backtick>"           \* the character U+0060
Fence == <<BackTick, BackTick, BackTick, "\n">>   \* "```\n"
Delim == <<"-", "-", "-">>         \* "---"
WhiteSpace == {" ", "\n"}          \* what String.prototype.trim removes here

RECURSIVE TrimStart(_)
TrimStart(s) ==
  IF s # <<>> /\ Head(s) \in WhiteSpace THEN TrimStart(Tail(s)) ELSE s

RECURSIVE TrimEnd(_)
TrimEnd(s) ==
  IF s # <<>> /\ s[Len(s)] \in WhiteSpace
  THEN TrimEnd(SubSeq(s, 1, Len(s) - 1)) ELSE s

\* s.trim()
Trim(s) == TrimEnd(TrimStart(s))

\* s.startsWith(p)
StartsWith(s, p) == Len(s) >= Len(p) /\ SubSeq(s, 1, Len(p)) = p

\* s.substring(n)
Substring(s, n) == SubSeq(s, n + 1, Len(s))

\* s.split(d)[0]: scan for the first occurrence of d, keep what precedes it
RECURSIVE SplitFirst(_, _)
SplitFirst(s, d) ==
  IF s = <<>> \/ StartsWith(s, d) THEN <<>>
  ELSE <<Head(s)>> \o SplitFirst(Tail(s), d)

\* faulty variant of extractAnswer: the first segment is not trimmed
extractAnswer_NoTrim(generation) ==
  LET answer == SplitFirst(generation, Delim)
  IN IF StartsWith(answer, Fence) THEN Trim(Substring(answer, 4)) ELSE answer

\* faulty variant of extractAnswer: the code fence is left in place
extractAnswer_KeepFence(generation) ==
  Trim(SplitFirst(generation, Delim))

\* function extractAnswer(generation: string)
extractAnswer(generation) ==
  LET answer == Trim(SplitFirst(generation, Delim))
  IN IF StartsWith(answer, Fence) THEN Trim(Substring(answer, 4)) ELSE answer

\* faulty variant of exactMatch: the raw output is compared with the target
exactMatch_RawOutput(output, target) == target = output

\* export function exactMatch(log, testcase): target === extractAnswer(output)
exactMatch(output, target) == target = extractAnswer(output)

Min3(x, y, z) ==
  IF x <= y /\ x <= z THEN x ELSE IF y <= z THEN y ELSE z

\* one row of the dynamic-programming table, filled left to right from the
\* row above (prev): deletion, insertion and substitution each cost 1
RECURSIVE FillRow(_, _, _, _)
FillRow(prev, ai, b, row) ==
  IF Len(row) = Len(b) + 1 THEN row
  ELSE LET j == Len(row)
           cost == IF ai = b[j] THEN 0 ELSE 1
       IN FillRow(prev, ai, b,
            Append(row, Min3(prev[j + 1] + 1, row[j] + 1, prev[j] + cost)))

\* rows 0..i of the (len(a)+1) x (len(b)+1) table; the result is row i
RECURSIVE TableRow(_, _, _)
TableRow(a, b, i) ==
  IF i = 0 THEN [j \in 1..(Len(b) + 1) |-> j - 1]
  ELSE LET prev == TableRow(a, b, i - 1)
       IN FillRow(prev, a[i], b, << prev[1] + 1 >>)

\* faulty variant of distance: the first column of the table is left at 0
RECURSIVE TableRow_ZeroColumn(_, _, _)
TableRow_ZeroColumn(a, b, i) ==
  IF i = 0 THEN [j \in 1..(Len(b) + 1) |-> j - 1]
  ELSE FillRow(TableRow_ZeroColumn(a, b, i - 1), a[i], b, << 0 >>)

distance_ZeroColumn(a, b) == TableRow_ZeroColumn(a, b, Len(a))[Len(b) + 1]

\* distance(a, b) of fastest-levenshtein / levenshtein_distance_optimized:
\* the value in the final cell of the table
distance(a, b) == TableRow(a, b, Len(a))[Len(b) + 1]

\* faulty variant of levenshtein: the raw log output is compared
levenshtein_RawOutput(output, target) == distance(target, output)

\* export function levenshtein(log, testcase)
levenshtein(output, target) ==
  LET generated == extractAnswer(output)
  IN distance(target, generated)

RECURSIVE Concat(_)
Concat(ss) == IF ss = <<>> THEN <<>> ELSE Head(ss) \o Concat(Tail(ss))

\* log.output values: assembled from fences, delimiters, blanks and digits
OutputPieces == {Fence, Delim, <<" ">>, <<"\n">>, <<"4">>, <<"2">>}
Outputs == { Concat(ps) : ps \in SeqsUpTo(OutputPieces, MaxPieces) }
\* testcase.target.output values
TargetPieces == {<<" ">>, <<"4">>, <<"2">>, <<"3">>}
Targets == { Concat(ps) : ps \in SeqsUpTo(TargetPieces, MaxTargetPieces) }

\* "42\n---\nexplanation", "```\n42", "43" and the target "42"
Example1 == <<"4", "2", "\n", "-", "-", "-", "\n",
              "e", "x", "p", "l", "a", "n", "a", "t", "i", "o", "n">>
Example2 == <<BackTick, BackTick, BackTick, "\n", "4", "2">>
Example3 == <<"4", "3">>
Target42 == <<"4", "2">>
Kitten == <<"k", "i", "t", "t", "e", "n">>
Sitting == <<"s", "i", "t", "t", "i", "n", "g">>

EvalInputs ==
  { [output |-> o, target |-> t] : o \in Outputs, t \in Targets }
  \cup { [output |-> o, target |-> Target42] :
           o \in {Example1, Example2, Example3} }
  \cup { [output |-> Sitting, target |-> Kitten] }

EvalInit ==
  /\ ChatInit
  /\ \E i \in EvalInputs :
       ev = [phase |-> "input", output |-> i.output, target |-> i.target,
             answer |-> <<>>, exact |-> FALSE, dist |-> 0]
  /\ tpl = Idle /\ calc = Idle /\ duo = Idle /\ pipe = Idle

\* the Exact Match evaluator is run on the log
RunExactMatch ==
  /\ ev.phase = "input"
  /\ ev' = [ev EXCEPT !.phase = "exactMatch",
                      !.answer = extractAnswer(ev.output),
                      !.exact = exactMatch(ev.output, ev.target)]
  /\ UNCHANGED <<chatVars, tpl, calc, duo, pipe>>

\* the Levenshtein evaluator is run on the log
RunLevenshtein ==
  /\ ev.phase = "input"
  /\ ev' = [ev EXCEPT !.phase = "levenshtein",
                      !.answer = extractAnswer(ev.output),
                      !.dist = levenshtein(ev.output, ev.target)]
  /\ UNCHANGED <<chatVars, tpl, calc, duo, pipe>>

EvalNext ==
  \/ RunExactMatch
  \/ RunLevenshtein

EvalSpec == EvalInit /\ [][EvalNext]_vars

(***************************************************************************)
(* populate_template of tutorials/rag/evaluate-rag-flow.ipynb.  Text is a  *)
(* sequence of characters; inputs is a dict, kept in insertion order.      *)
(***************************************************************************)
MaxTemplatePieces == 2  \* pieces a template content is assembled from

\* "{{" + key + "}}"
Marker(key) == <<"{", "{">> \o key \o <<"}", "}">>

\* str.replace(old, new): every non-overlapping occurrence, left to right
RECURSIVE Replace(_, _, _)
Replace(s, old, new) ==
  IF s = <<>> THEN <<>>
  ELSE IF StartsWith(s, old)
       THEN new \o Replace(Substring(s, Len(old)), old, new)
       ELSE <<Head(s)>> \o Replace(Tail(s), old, new)

\* for key, value in inputs.items(): content = content.replace(...)
RECURSIVE ReplaceKeys(_, _)
ReplaceKeys(content, inputs) ==
  IF inputs = <<>> THEN content
  ELSE ReplaceKeys(Replace(content, Marker(Head(inputs).key), Head(inputs).value),
                   Tail(inputs))

KeyQ == <<"q">>          \* stands for "question"
KeyR == <<"r">>          \* stands for "retrieved_data"
KeyU == <<"u">>          \* a name no mapping has
KeyName == <<"n", "a", "m", "e">>
KeyAge == <<"a", "g", "e">>
AnyKeys == {KeyQ, KeyR, KeyU, KeyName, KeyAge}

\* faulty variant of populate_template: placeholders left over are deleted
RECURSIVE populate_template_DropLeftovers(_, _)
populate_template_DropLeftovers(template, inputs) ==
  IF template = <<>> THEN [ok |-> TRUE, messages |-> <<>>, error |-> ""]
  ELSE LET template_message == Head(template)
           content == ReplaceKeys(template_message.content,
                        inputs \o << [key |-> KeyU, value |-> <<>>] >>)
           rest == populate_template_DropLeftovers(Tail(template), inputs)
           message == [template_message EXCEPT !.content = content]
       IN [rest EXCEPT !.messages = <<message>> \o rest.messages]

\* def populate_template(template: list, inputs: dict[str, str]) -> list
RECURSIVE populate_template(_, _)
populate_template(template, inputs) ==
  IF template = <<>> THEN [ok |-> TRUE, messages |-> <<>>, error |-> ""]
  ELSE LET template_message == Head(template)
           content == ReplaceKeys(template_message.content, inputs)
           rest == populate_template(Tail(template), inputs)
           message == [template_message EXCEPT !.content = content]
       IN [rest EXCEPT !.messages = <<message>> \o rest.messages]

TemplatePieces == {Marker(KeyQ), Marker(KeyR), Marker(KeyU), <<"x">>}
TemplateContents ==
  { Concat(ps) : ps \in SeqsUpTo(TemplatePieces, MaxTemplatePieces) }
InputValues == {<<>>, <<"A">>, Marker(KeyQ), Marker(KeyR)}
\* dicts over the keys q and r, in either insertion order
InputDicts ==
  { <<>> }
  \cup { << [key |-> k, value |-> v] >> : k \in {KeyQ, KeyR}, v \in InputValues }
  \cup { << [key |-> ks[1], value |-> v1], [key |-> ks[2], value |-> v2] >> :
           ks \in {<<KeyQ, KeyR>>, <<KeyR, KeyQ>>},
           v1 \in InputValues, v2 \in InputValues }

\* "Hello {{name}}, you are {{age}}" with {name: "Ada", age: "36"}
HelloTemplate ==
  <<"H", "e", "l", "l", "o", " ">> \o Marker(KeyName)
    \o <<",", " ", "y", "o", "u", " ", "a", "r", "e", " ">> \o Marker(KeyAge)
HelloInputs == << [key |-> KeyName, value |-> <<"A", "d", "a">>],
                  [key |-> KeyAge, value |-> <<"3", "6">>] >>
HelloResult == <<"H", "e", "l", "l", "o", " ", "A", "d", "a", ",", " ",
                 "y", "o", "u", " ", "a", "r", "e", " ", "3", "6">>

TemplateInputs ==
  { [template |-> << Message("system", c) >>, inputs |-> d] :
      c \in TemplateContents, d \in InputDicts }
  \cup { [template |-> << Message("system", c), Message("user", Marker(KeyQ)) >>,
          inputs |-> d] : c \in {<<"x">>, Marker(KeyR)}, d \in InputDicts }
  \cup { [template |-> << Message("system", HelloTemplate) >>,
          inputs |-> HelloInputs] }

TemplateInit ==
  /\ ChatInit
  /\ \E i \in TemplateInputs :
       tpl = [phase |-> "input", template |-> i.template, inputs |-> i.inputs,
              result |-> [ok |-> TRUE, messages |-> <<>>, error |-> ""]]
  /\ ev = Idle /\ calc = Idle /\ duo = Idle /\ pipe = Idle

\* messages = populate_template(template, inputs)
RunPopulateTemplate ==
  /\ tpl.phase = "input"
  /\ tpl' = [tpl EXCEPT !.phase = "done",
                        !.result = populate_template(tpl.template, tpl.inputs)]
  /\ UNCHANGED <<chatVars, ev, calc, duo, pipe>>

TemplateNext ==
  \/ RunPopulateTemplate

TemplateSpec == TemplateInit /\ [][TemplateNext]_vars

(***************************************************************************)
(* The calculator tool on its own: one call with arbitrary arguments       *)
(***************************************************************************)
MaxOperand == 3
Operands == (0 - MaxOperand)..MaxOperand
\* CALCULATOR_JSON_SCHEMA enum, and operation strings outside it
Operations == {"add", "subtract", "multiply", "divide"}
OtherOperations == {"modulo", ""}
\* num1 / num2 is a JS number; operands of divide are drawn with an exact
\* quotient (or a zero divisor) so that the quotient is an integer
ExactQuotient(num1, num2) == \E k \in Operands : k * num2 = num1
CalcInputs ==
  { a \in [operation : Operations \cup OtherOperations,
           num1 : Operands, num2 : Operands] :
      a.operation = "divide" => (a.num2 = 0 \/ ExactQuotient(a.num1, a.num2)) }

CalcInit ==
  /\ ChatInit
  /\ \E a \in CalcInputs :
       calc = [phase |-> "input", args |-> a,
               result |-> [ok |-> TRUE, value |-> 0, error |-> ""]]
  /\ ev = Idle /\ tpl = Idle /\ duo = Idle /\ pipe = Idle

\* calculator(toolCall.function.arguments)
RunCalculator ==
  /\ calc.phase = "input"
  /\ calc' = [calc EXCEPT !.phase = "done", !.result = calculator(calc.args)]
  /\ UNCHANGED <<chatVars, ev, tpl, duo, pipe>>

CalcNext ==
  \/ RunCalculator

CalcSpec == CalcInit /\ [][CalcNext]_vars

(***************************************************************************)
(* The manually logged agent and the decorator-instrumented agent, run     *)
(* side by side on the same lines and the same completions                 *)
(***************************************************************************)
\* callModel of the manually logged agent, from the completion to the value
\* returned (or the error thrown by calculator); the log calls resolve
callModel_manual(output) ==
  LET st0 == [logs |-> <<>>, invoked |-> <<>>, nextSeq |-> 1,
              llmResponse |-> "", thrown |-> ""]
      st == IF output.hasToolCalls
            THEN ToolLoop(output.tool_calls, TraceId, st0)
            ELSE [st0 EXCEPT !.llmResponse = output.content]
  IN [response |-> st.llmResponse, thrown |-> st.thrown]

\* faulty variant of callModel_decorators: the loop runs every tool call and
\* the reply is built from the last one
callModel_decorators_WholeLoop(output) ==
  IF output.hasToolCalls /\ output.tool_calls # <<>>
  THEN LET r == calculator(Last(output.tool_calls))
       IN [response |-> ToolReply(ToolName, r.value), thrown |-> r.error,
           invoked |-> output.tool_calls]
  ELSE [response |-> output.content, thrown |-> "", invoked |-> <<>>]

\* callable of humanloop.prompt in the decorator agent: `return` inside
\* `for (const toolCall of tool_calls)`, then `return content || ""`
callModel_decorators(output) ==
  IF output.hasToolCalls /\ output.tool_calls # <<>>
  THEN LET r == calculator(Head(output.tool_calls))
       IN [response |-> ToolReply(ToolName, r.value), thrown |-> r.error,
           invoked |-> << Head(output.tool_calls) >>]
  ELSE [response |-> output.content, thrown |-> "", invoked |-> <<>>]

\* completions given to both agents: the decorated calculator is only called
\* with arguments its callable accepts (what humanloop.tool does with a
\* throwing callable is decided by the SDK)
DuoOutputs ==
  { o \in ModelOutputs : callModel_decorators(o).thrown = "" }

DuoAgent == [messages |-> << Message("system", SystemPrompt) >>,
             printed |-> <<>>, error |-> ""]

DuoInit ==
  /\ ChatInit
  /\ duo = [phase |-> "question", lines |-> <<>>, outputs |-> <<>>,
            invoked |-> <<>>, manual |-> DuoAgent, decorators |-> DuoAgent]
  /\ ev = Idle /\ tpl = Idle /\ calc = Idle /\ pipe = Idle

\* both agents: let userInput = await rl.question("You: "); exit test; push
DuoReadLine(line) ==
  /\ duo.phase = "question"
  /\ IF line = ExitToken
     THEN duo' = [duo EXCEPT !.phase = "done", !.lines = Append(@, line)]
     ELSE /\ Len(duo.lines) < MaxTurns
          /\ duo' = [duo EXCEPT
                       !.phase = "callModel",
                       !.lines = Append(@, line),
                       !.manual.messages = Append(@, Message("user", line)),
                       !.decorators.messages = Append(@, Message("user", line))]
  /\ UNCHANGED <<chatVars, ev, tpl, calc, pipe>>

\* both agents: const response = await callModel(...); console.log; push.
\* An error thrown by calculator ends the manual agent's conversation.
DuoModelReplies(output) ==
  /\ duo.phase = "callModel"
  /\ LET m == callModel_manual(output)
         d == callModel_decorators(output)
     IN duo' = [duo EXCEPT
                  !.phase = IF m.thrown # "" THEN "done" ELSE "question",
                  !.outputs = Append(@, output),
                  !.invoked = Append(@, d.invoked),
                  !.manual =
                     IF m.thrown # ""
                     THEN [@ EXCEPT !.error = m.thrown]
                     ELSE [@ EXCEPT
                             !.printed = Append(@, m.response),
                             !.messages = Append(@, Message("assistant", m.response))],
                  !.decorators =
                     [@ EXCEPT
                        !.printed = Append(@, d.response),
                        !.messages = Append(@, Message("assistant", d.response))]]
  /\ UNCHANGED <<chatVars, ev, tpl, calc, pipe>>

DuoNext ==
  \/ \E line \in UserLines : DuoReadLine(line)
  \/ \E output \in DuoOutputs : DuoModelReplies(output)

DuoSpec == DuoInit /\ [][DuoNext]_vars

(***************************************************************************)
(* The logged RAG pipeline: ask_question_with_logging called once per      *)
(* datapoint, each run logging a Flow trace, a Tool span and a Prompt span *)
(***************************************************************************)
MaxRuns == 3
RetrievedDocs == {"doc-a", "doc-b"}
Completions == {"A", "B"}
NoTrace == 0

\* the id the Sink gives a new Log: unique, generated when the Log is opened
NewLogId(logs) == Len(logs) + 1

Log(id, kind, run, parent, status, output) ==
  [id |-> id, kind |-> kind, run |-> run, trace_parent_id |-> parent,
   trace_status |-> status, output |-> output]

PipeInit ==
  /\ ChatInit
  /\ pipe = [phase |-> "loop", run |-> 0, trace |-> NoTrace,
             retrieved_data |-> "", output |-> "", logs |-> <<>>]
  /\ ev = Idle /\ tpl = Idle /\ calc = Idle /\ duo = Idle

\* for datapoint in datapoints: ask_question_with_logging(...):
\* trace = humanloop.flows.log(...); retrieved_data = retrieval_tool(question)
PipeOpenTrace(doc) ==
  /\ pipe.phase = "loop"
  /\ pipe.run < MaxRuns
  /\ LET id == NewLogId(pipe.logs)
     IN pipe' = [pipe EXCEPT
                   !.phase = "tool",
                   !.run = @ + 1,
                   !.trace = id,
                   !.retrieved_data = doc,
                   !.output = "",
                   !.logs = Append(@, Log(id, "flow", pipe.run + 1, NoTrace,
                                          "incomplete", ""))]
  /\ UNCHANGED <<chatVars, ev, tpl, calc, duo>>

\* humanloop.tools.log(output=retrieved_data, trace_parent_id=trace.id, ...);
\* messages = populate_template(...); chat_completion = openai...create(...)
PipeLogTool(completion) ==
  /\ pipe.phase = "tool"
  /\ pipe' = [pipe EXCEPT
                !.phase = "prompt",
                !.output = completion,
                !.logs = Append(@, Log(NewLogId(pipe.logs), "tool", pipe.run,
                                       pipe.trace, "", pipe.retrieved_data))]
  /\ UNCHANGED <<chatVars, ev, tpl, calc, duo>>

\* faulty variant of PipeLogPrompt: the span is attached to the trace of the
\* first run
PipeLogPrompt_FirstTrace ==
  /\ pipe.phase = "prompt"
  /\ pipe' = [pipe EXCEPT
                !.phase = "close",
                !.logs = Append(@, Log(NewLogId(pipe.logs), "prompt", pipe.run,
                                       pipe.logs[1].id, "", pipe.output))]
  /\ UNCHANGED <<chatVars, ev, tpl, calc, duo>>

\* humanloop.prompts.log(output=output, trace_parent_id=trace.id, ...)
PipeLogPrompt ==
  /\ pipe.phase = "prompt"
  /\ pipe' = [pipe EXCEPT
                !.phase = "close",
                !.logs = Append(@, Log(NewLogId(pipe.logs), "prompt", pipe.run,
                                       pipe.trace, "", pipe.output))]
  /\ UNCHANGED <<chatVars, ev, tpl, calc, duo>>

\* humanloop.flows.update_log(log_id=trace.id, output=output,
\* trace_status="complete"); return output
PipeCloseTrace ==
  /\ pipe.phase = "close"
  /\ pipe' = [pipe EXCEPT
                !.phase = "loop",
                !.logs = [i \in 1..Len(pipe.logs) |->
                            IF pipe.logs[i].id = pipe.trace
                            THEN [pipe.logs[i] EXCEPT
                                    !.trace_status = "complete",
                                    !.output = pipe.output]
                            ELSE pipe.logs[i]]]
  /\ UNCHANGED <<chatVars, ev, tpl, calc, duo>>

\* a call to the Sink, the vector db or OpenAI raises: the exception leaves
\* ask_question_with_logging and the loop over the datapoints
PipeRaises ==
  /\ \/ pipe.phase = "loop" /\ pipe.run < MaxRuns
     \/ pipe.phase \in {"tool", "prompt", "close"}
  /\ pipe' = [pipe EXCEPT !.phase = "raised"]
  /\ UNCHANGED <<chatVars, ev, tpl, calc, duo>>

PipeNext ==
  \/ \E doc \in RetrievedDocs : PipeOpenTrace(doc)
  \/ \E completion \in Completions : PipeLogTool(completion)
  \/ PipeLogPrompt
  \/ PipeCloseTrace
  \/ PipeRaises

PipeSpec == PipeInit /\ [][PipeNext]_vars

(***************************************************************************)
(* One timed run of the RAG pipeline, in its two logged variants:          *)
(*   "flow_notebook": ask_question(inputs, trace_id) of the flow tutorial, *)
(*                    with the Flow log opened and closed by the caller;   *)
(*   "with_logging":  ask_question_with_logging.                          *)
(* Every datetime.now() reads a clock that does not run backwards and may  *)
(* give the same value twice.                                              *)
(***************************************************************************)
Variants == {"flow_notebook", "with_logging"}
Ticks == {0, 1}
Questions == { <<"a">>, <<"b">> }
Documents == { <<"x">>, <<"y">> }
Answers == {"A", "B"}

\* template: one system message holding {{question}} and {{retrieved_data}}
RagTemplate == << Message("system", Marker(KeyQ) \o <<" ">> \o Marker(KeyR)) >>

\* inputs = {**inputs, "retrieved_data": retrieved_data}
WithRetrievedData(question, retrieved_data) ==
  << [key |-> KeyQ, value |-> question],
     [key |-> KeyR, value |-> retrieved_data] >>

\* the uninstrumented pipeline: ask_question and call_llm,
\* with the document the retriever returns and the completion the model gives
call_llm(inputs, completion) ==
  [messages |-> populate_template(RagTemplate, inputs).messages,
   returned |-> completion]
ask_question(question, retrieved_data, completion) ==
  call_llm(WithRetrievedData(question, retrieved_data), completion)

TimedLog(id, kind, parent, start_time, end_time, output, status) ==
  [id |-> id, kind |-> kind, trace_parent_id |-> parent,
   start_time |-> start_time, end_time |-> end_time,
   output |-> output, trace_status |-> status]

NoTime == 0 - 1

RagInit ==
  /\ ChatInit
  /\ \E v \in Variants, q \in Questions :
       pipe = [phase |-> "start", variant |-> v, clock |-> 0,
               start_time |-> NoTime, trace |-> NoTrace, question |-> q,
               retrieved_data |-> <<>>, messages |-> <<>>, output |-> "",
               returned |-> "", logs |-> <<>>]
  /\ ev = Idle /\ tpl = Idle /\ calc = Idle /\ duo = Idle

\* trace = humanloop.flows.log(..., inputs=inputs, start_time=datetime.now())
RagOpenTrace(tick) ==
  /\ pipe.phase = "start"
  /\ LET now == pipe.clock + tick
         id == NewLogId(pipe.logs)
     IN pipe' = [pipe EXCEPT
                   !.phase = "retrieve",
                   !.clock = now,
                   !.trace = id,
                   !.logs = Append(@, TimedLog(id, "flow", NoTrace, now, NoTime,
                                               "", "incomplete"))]
  /\ UNCHANGED <<chatVars, ev, tpl, calc, duo>>

\* start_time=datetime.now(); retrieved_data = retrieval_tool(question)
RagRetrieve(tick, doc) ==
  /\ pipe.phase = "retrieve"
  /\ pipe' = [pipe EXCEPT
                !.phase = "toolLog",
                !.clock = @ + tick,
                !.start_time = pipe.clock + tick,
                !.retrieved_data = doc]
  /\ UNCHANGED <<chatVars, ev, tpl, calc, duo>>

\* faulty variant of RagLogTool: end_time is the time the trace was opened
RagLogTool_EndAtTraceOpen(tick) ==
  /\ pipe.phase = "toolLog"
  /\ pipe' = [pipe EXCEPT
                !.phase = "callModel",
                !.clock = pipe.clock + tick,
                !.logs = Append(@, TimedLog(NewLogId(pipe.logs), "tool",
                                   pipe.trace, pipe.start_time,
                                   pipe.logs[1].start_time,
                                   pipe.retrieved_data, ""))]
  /\ UNCHANGED <<chatVars, ev, tpl, calc, duo>>

\* humanloop.tools.log(output=retrieved_data, trace_parent_id=...,
\*                     start_time=start_time, end_time=datetime.now())
RagLogTool(tick) ==
  /\ pipe.phase = "toolLog"
  /\ LET now == pipe.clock + tick
     IN pipe' = [pipe EXCEPT
                   !.phase = "callModel",
                   !.clock = now,
                   !.logs = Append(@, TimedLog(NewLogId(pipe.logs), "tool",
                                      pipe.trace, pipe.start_time, now,
                                      pipe.retrieved_data, ""))]
  /\ UNCHANGED <<chatVars, ev, tpl, calc, duo>>

\* with_logging: start_time=datetime.now(); flow_notebook:
\* state_time=datetime.now() (start_time keeps the retrieval's value); then
\* messages = populate_template(template, inputs); chat_completion = create(...)
RagCallModel(tick, completion) ==
  /\ pipe.phase = "callModel"
  /\ LET now == pipe.clock + tick
         inputs == WithRetrievedData(pipe.question, pipe.retrieved_data)
     IN pipe' = [pipe EXCEPT
                   !.phase = "promptLog",
                   !.clock = now,
                   !.start_time = IF pipe.variant = "with_logging"
                                  THEN now ELSE @,
                   !.messages = populate_template(RagTemplate, inputs).messages,
                   !.output = completion]
  /\ UNCHANGED <<chatVars, ev, tpl, calc, duo>>

\* humanloop.prompts.log(inputs=inputs, output=..., trace_parent_id=...,
\*                       start_time=start_time, end_time=datetime.now())
RagLogPrompt(tick) ==
  /\ pipe.phase = "promptLog"
  /\ LET now == pipe.clock + tick
     IN pipe' = [pipe EXCEPT
                   !.phase = "close",
                   !.clock = now,
                   !.logs = Append(@, TimedLog(NewLogId(pipe.logs), "prompt",
                                      pipe.trace, pipe.start_time, now,
                                      pipe.output, ""))]
  /\ UNCHANGED <<chatVars, ev, tpl, calc, duo>>

\* faulty variant of RagCloseTrace: the trace is completed without its output
RagCloseTrace_WithoutOutput ==
  /\ pipe.phase = "close"
  /\ pipe' = [pipe EXCEPT
                !.phase = "returned",
                !.returned = pipe.output,
                !.logs = [i \in 1..Len(pipe.logs) |->
                            IF pipe.logs[i].id = pipe.trace
                            THEN [pipe.logs[i] EXCEPT !.trace_status = "complete"]
                            ELSE pipe.logs[i]]]
  /\ UNCHANGED <<chatVars, ev, tpl, calc, duo>>

\* humanloop.flows.update_log(log_id=..., output=..., trace_status="complete")
\* and the pipeline's answer is returned
RagCloseTrace ==
  /\ pipe.phase = "close"
  /\ pipe' = [pipe EXCEPT
                !.phase = "returned",
                !.returned = pipe.output,
                !.logs = [i \in 1..Len(pipe.logs) |->
                            IF pipe.logs[i].id = pipe.trace
                            THEN [pipe.logs[i] EXCEPT
                                    !.trace_status = "complete",
                                    !.output = pipe.output]
                            ELSE pipe.logs[i]]]
  /\ UNCHANGED <<chatVars, ev, tpl, calc, duo>>

\* a call to the Sink, the vector db or OpenAI raises: the run ends there
RagRaises ==
  /\ pipe.phase \in {"start", "retrieve", "toolLog", "callModel",
                      "promptLog", "close"}
  /\ pipe' = [pipe EXCEPT !.phase = "raised"]
  /\ UNCHANGED <<chatVars, ev, tpl, calc, duo>>

RagNext ==
  \/ \E tick \in Ticks : RagOpenTrace(tick)
  \/ \E tick \in Ticks, doc \in Documents : RagRetrieve(tick, doc)
  \/ \E tick \in Ticks : RagLogTool(tick)
  \/ \E tick \in Ticks, completion \in Answers : RagCallModel(tick, completion)
  \/ \E tick \in Ticks : RagLogPrompt(tick)
  \/ RagCloseTrace
  \/ RagRaises

RagSpec == RagInit /\ [][RagNext]_vars

(***************************************************************************)
(* populate_evaluation: the pipeline run over the datapoints of a Dataset, *)
(* one log per datapoint linked to it by source_datapoint_id.  Variants:   *)
(*   "flow_notebook":   flows.log(inputs=inputs, ...) of the flow tutorial *)
(*   "prompt_notebook": prompts.log(inputs=datapoint.inputs, ...)          *)
(***************************************************************************)
MaxDatapoints == 2
PopulateVariants == {"flow_notebook", "prompt_notebook"}
\* the notebook's global `inputs`: the sample question asked before
SampleInputs == <<"s">>
DatapointInputs == Questions \cup {SampleInputs}
Datasets ==
  { [i \in 1..Len(qs) |-> [id |-> i, inputs |-> qs[i]]] :
      qs \in SeqsUpTo(DatapointInputs, MaxDatapoints) }

PopulateInit ==
  /\ ChatInit
  /\ \E v \in PopulateVariants, ds \in Datasets :
       pipe = [phase |-> "loop", variant |-> v, inputs |-> SampleInputs,
               datapoints |-> ds, next |-> 1, chat_completion |-> "",
               answers |-> <<>>, logs |-> <<>>]
  /\ ev = Idle /\ tpl = Idle /\ calc = Idle /\ duo = Idle

\* for datapoint in datapoints: chat_completion = ask_question(datapoint.inputs)
PopulateAsk(doc, completion) ==
  /\ pipe.phase = "loop"
  /\ pipe.next <= Len(pipe.datapoints)
  /\ LET datapoint == pipe.datapoints[pipe.next]
         answer == ask_question(datapoint.inputs, doc, completion).returned
     IN pipe' = [pipe EXCEPT !.phase = "log",
                             !.chat_completion = answer,
                             !.answers = Append(@, answer)]
  /\ UNCHANGED <<chatVars, ev, tpl, calc, duo>>

\* flow_notebook:   humanloop.flows.log(inputs=inputs, output=..., ...,
\*                    source_datapoint_id=datapoint.id, ...)
\* prompt_notebook: humanloop.prompts.log(inputs=datapoint.inputs, ...)
PopulateLog ==
  /\ pipe.phase = "log"
  /\ LET datapoint == pipe.datapoints[pipe.next]
     IN pipe' = [pipe EXCEPT
                   !.phase = "loop",
                   !.next = @ + 1,
                   !.logs = Append(@,
                      [kind |-> IF pipe.variant = "flow_notebook"
                                THEN "flow" ELSE "prompt",
                       inputs |-> IF pipe.variant = "flow_notebook"
                                  THEN pipe.inputs ELSE datapoint.inputs,
                       output |-> pipe.chat_completion,
                       source_datapoint_id |-> datapoint.id])]
  /\ UNCHANGED <<chatVars, ev, tpl, calc, duo>>

\* a call to the Sink, the vector db or OpenAI raises: the loop ends there
PopulateRaises ==
  /\ \/ pipe.phase = "loop" /\ pipe.next <= Len(pipe.datapoints)
     \/ pipe.phase = "log"
  /\ pipe' = [pipe EXCEPT !.phase = "raised"]
  /\ UNCHANGED <<chatVars, ev, tpl, calc, duo>>

PopulateNext ==
  \/ \E doc \in Documents, completion \in Answers : PopulateAsk(doc, completion)
  \/ PopulateLog
  \/ PopulateRaises

PopulateSpec == PopulateInit /\ [][PopulateNext]_vars

\* the awaited flows.updateLog promise settles (resolves or rejects)
FairSpec == Spec /\ WF_vars(CloseTrace \/ CloseTraceFails)

ToolLogsOf(logs) == SelectSeq(logs, LAMBDA l : l.kind = "tool")
ForwardedLines == SelectSeq(lines, LAMBDA l : l # ExitToken)

(* ======================= claims ======================= *)

\* C1: a failure of the Sink (flows.log, tools.log, prompts.log, updateLog
\* rejecting) is never raised into the caller: the process never ends with a
\* Sink error.
C1_SinkFailureIsolated ==
  ~(pc = "crashed" /\ error = SinkUnreachable)

\* C2: an error thrown by the calculator tool never leaves callModel and never
\* ends the conversation loop.
C2_ToolErrorDoesNotCrash ==
  ~(pc = "crashed" /\ error \in ToolErrors)

\* C3: every calculator invocation is recorded as a tool log carrying its
\* arguments as input and its return value, or its error description when it
\* threw, as output: the tool logs issued match the invocations one to one.
C3_EveryInvocationRecorded ==
  LET toolLogs == ToolLogsOf(issued)
  IN /\ Len(toolLogs) = Len(invocations)
     /\ \A i \in 1..Len(invocations) :
          /\ toolLogs[i].inputs = invocations[i].args
          /\ toolLogs[i].output =
               IF invocations[i].ok
               THEN StringifyNumber(invocations[i].value)
               ELSE invocations[i].error

\* C4: every child log carrying the trace id has reached the Sink before the
\* trace is marked complete: no log is still on its way to a complete trace.
C4_NoSpanAfterTerminal ==
  traceStatus = "complete" => inflight = {}

\* C5: the Sink receives the logs of a trace in the order the agent opened
\* them (tool logs of a turn before its prompt log, earlier turns first).
C5_SinkOrderIsOpenOrder ==
  \A i, j \in 1..Len(sinkLogs) :
    i < j => sinkLogs[i].seq < sinkLogs[j].seq

C7_AbortForceCloses ==
  (pc \in {"crashed", "aborted"} /\ traceStatus # "none")
    => traceStatus \in {"complete", "cancelled"}

\* C10: the loop ends exactly on the line "exit", which is neither appended to
\* the history nor sent to the model; every other line is appended, sent to
\* the model and its reply printed; after exit, unless a call fails, the trace
\* is eventually marked complete with the serialized conversation as output.
C10_ExitSentinel ==
  /\ [][pc = "question" /\ lines' # lines =>
          IF Last(lines') = ExitToken
          THEN pc' = "closing" /\ messages' = messages
               /\ modelCalls' = modelCalls
          ELSE pc' = "callModel"
               /\ messages' = Append(messages, Message("user", Last(lines')))]_vars
  /\ [][pc' = "closing" /\ pc # "closing" =>
          pc = "question" /\ lines' = Append(lines, ExitToken)]_vars
  /\ [](pc \in {"question", "closing", "done"} =>
          /\ modelCalls = Len(ForwardedLines)
          /\ Len(printed) = modelCalls
          /\ \A i \in 1..Len(printed) :
               messages[2 * i] = Message("user", ForwardedLines[i])
               /\ messages[2 * i + 1] = Message("assistant", printed[i]))
  /\ (pc = "closing") ~>
       (pc = "crashed" \/
        (traceStatus = "complete" /\ traceOutput = StringifyMessages(messages)))

C10_Witness ==
  /\ pc = "done"
  /\ Len(lines) = MaxTurns + 1
  /\ Len(printed) = MaxTurns
  /\ traceOutput = StringifyMessages(messages)

(* ---------- claims about the evaluators ---------- *)

Min(S) == CHOOSE m \in S : \A n \in S : m <= n
IsTrimmed(s) == s = <<>> \/ (s[1] \notin WhiteSpace /\ s[Len(s)] \notin WhiteSpace)
AllWhiteSpace(s) == \A i \in 1..Len(s) : s[i] \in WhiteSpace
\* s without its surrounding whitespace
Stripped(s) ==
  IF AllWhiteSpace(s) THEN <<>>
  ELSE LET i == Min({k \in 1..Len(s) : s[k] \notin WhiteSpace})
           j == CHOOSE k \in 1..Len(s) :
                  s[k] \notin WhiteSpace /\ AllWhiteSpace(SubSeq(s, k + 1, Len(s)))
       IN SubSeq(s, i, j)
\* the text before the first "---"
FirstSegment(g) ==
  LET at == {i \in 1..(Len(g) - 2) : SubSeq(g, i, i + 2) = Delim}
  IN IF at = {} THEN g ELSE SubSeq(g, 1, Min(at) - 1)
\* the answer of a generation: first segment, stripped, one leading fence
\* removed and the rest stripped again
AnswerOf(g) ==
  LET seg == Stripped(FirstSegment(g))
  IN IF Len(seg) >= 4 /\ SubSeq(seg, 1, 4) = Fence
     THEN Stripped(SubSeq(seg, 5, Len(seg))) ELSE seg

\* C11 as stated: exactMatch is true iff generated text and target are
\* identical after both went through the answer extraction.
C11_BothNormalized ==
  ev.phase = "exactMatch" =>
    (ev.exact <=> AnswerOf(ev.output) = AnswerOf(ev.target))

\* C11 amended: exactMatch is true iff the target, taken verbatim, equals the
\* answer extracted from the generated text; it is true for
\* ("42\n---\nexplanation", "42") and (fence + "42", "42"), false for ("43", "42").
C11_ExactMatchOnExtractedAnswer ==
  ev.phase = "exactMatch" =>
    /\ ev.exact <=> (ev.target = AnswerOf(ev.output))
    /\ (ev.output \in {Example1, Example2} /\ ev.target = Target42) => ev.exact
    /\ (ev.output = Example3 /\ ev.target = Target42) => ~ev.exact

C11_Witness ==
  /\ ev.phase = "exactMatch"
  /\ ev.exact
  /\ ev.output = Fence \o <<"4">> \o Delim

\* C12 as stated: for every generation that starts with the fence marker the
\* extracted answer does not start with the marker.
C12_FenceAlwaysRemoved ==
  (ev.phase = "exactMatch" /\ StartsWith(ev.output, Fence))
    => ~StartsWith(ev.answer, Fence)

\* C12 amended: one leading fence is removed: for a generation that starts
\* with the fence marker the extracted answer does not start with the marker,
\* unless the fence is followed, after optional whitespace, by a second fence.
C12_OneFenceRemoved ==
  (/\ ev.phase = "exactMatch"
   /\ StartsWith(ev.output, Fence)
   /\ ~StartsWith(TrimStart(Substring(ev.output, 4)), Fence))
    => ~StartsWith(ev.answer, Fence)

C12_Witness ==
  /\ ev.phase = "exactMatch"
  /\ ev.output = Fence \o <<"4">> \o Delim
  /\ ev.answer = <<"4">>

\* edit distance of the prefixes a[1..i] and b[1..j], by its recurrence
RECURSIVE EditDistance(_, _, _, _)
EditDistance(a, b, i, j) ==
  IF i = 0 THEN j
  ELSE IF j = 0 THEN i
  ELSE IF a[i] = b[j] THEN EditDistance(a, b, i - 1, j - 1)
  ELSE 1 + Min3(EditDistance(a, b, i - 1, j),
                EditDistance(a, b, i, j - 1),
                EditDistance(a, b, i - 1, j - 1))

\* C13: the distance is symmetric and is zero exactly when the two strings
\* are equal: the evaluator's distance(target, answer) equals
\* distance(answer, target), is 0 iff answer = target, and distance(s, s) = 0.
C13_DistanceSymmetricZeroIffEqual ==
  ev.phase = "levenshtein" =>
    /\ ev.dist = distance(ev.answer, ev.target)
    /\ ev.dist = 0 <=> ev.answer = ev.target
    /\ distance(ev.target, ev.target) = 0
    /\ distance(ev.output, ev.output) = 0

C13_Witness ==
  /\ ev.phase = "levenshtein"
  /\ ev.dist = 2
  /\ Len(ev.answer) # Len(ev.target)

\* C14: the Levenshtein evaluator returns the edit distance (insert, delete,
\* substitute, each of cost 1) between the target and the answer extracted
\* from the log output; for "kitten" and "sitting" it returns 3.
C14_LevenshteinIsEditDistance ==
  ev.phase = "levenshtein" =>
    /\ ev.dist = EditDistance(ev.target, AnswerOf(ev.output),
                              Len(ev.target), Len(AnswerOf(ev.output)))
    /\ (ev.target = Kitten /\ ev.output = Sitting) => ev.dist = 3

C14_Witness ==
  /\ ev.phase = "levenshtein"
  /\ ev.target = Kitten
  /\ ev.output = Sitting
  /\ ev.dist = 3

(* ---------- claims about populate_template ---------- *)

ValueOf(inputs, key) ==
  LET i == CHOOSE i \in 1..Len(inputs) : inputs[i].key = key
  IN inputs[i].value
KeysOf(inputs) == { inputs[i].key : i \in 1..Len(inputs) }
Reverse(q) == [i \in 1..Len(q) |-> q[Len(q) + 1 - i]]

\* one pass over the template: at a placeholder of a mapped name emit the
\* value, anywhere else copy the character; values are not scanned again
RECURSIVE Substituted(_, _)
Substituted(content, inputs) ==
  IF content = <<>> THEN <<>>
  ELSE LET hit == {k \in KeysOf(inputs) : StartsWith(content, Marker(k))}
       IN IF hit = {} THEN <<Head(content)>> \o Substituted(Tail(content), inputs)
          ELSE LET k == CHOOSE k \in hit : TRUE
               IN ValueOf(inputs, k)
                    \o Substituted(Substring(content, Len(Marker(k))), inputs)

RECURSIVE Occurrences(_, _)
Occurrences(s, pat) ==
  IF Len(s) < Len(pat) THEN 0
  ELSE (IF StartsWith(s, pat) THEN 1 ELSE 0) + Occurrences(Tail(s), pat)

\* C15: the result is the template with every occurrence of each mapped
\* placeholder replaced by its value and nothing else changed; "Hello
\* {{name}}, you are {{age}}" with name Ada and age 36 gives "Hello Ada, you
\* are 36".
C15_ReplacesEveryPlaceholder ==
  tpl.phase = "done" =>
    /\ tpl.result.ok
    /\ Len(tpl.result.messages) = Len(tpl.template)
    /\ \A i \in 1..Len(tpl.template) :
         /\ tpl.result.messages[i].role = tpl.template[i].role
         /\ tpl.result.messages[i].content =
              Substituted(tpl.template[i].content, tpl.inputs)
    /\ tpl.template[1].content = HelloTemplate =>
         tpl.result.messages[1].content = HelloResult

\* C16: the result does not depend on the order in which the keys of the
\* mapping are processed.
C16_OrderIndependent ==
  tpl.phase = "done" =>
    tpl.result = populate_template(tpl.template, Reverse(tpl.inputs))

\* C17 as stated: a template with a placeholder whose name is not a key of
\* the mapping fails with MissingVariable.
C17_MissingVariableRaised ==
  (/\ tpl.phase = "done"
   /\ \E i \in 1..Len(tpl.template), k \in AnyKeys \ KeysOf(tpl.inputs) :
        Occurrences(tpl.template[i].content, Marker(k)) > 0)
    => ~tpl.result.ok /\ tpl.result.error = "MissingVariable"

\* C17 amended: populate_template never fails; a placeholder whose name is
\* not a key of the mapping is left verbatim: each of its occurrences in the
\* template is still present in the result.
C17_UnmappedLeftVerbatim ==
  tpl.phase = "done" =>
    /\ tpl.result.ok
    /\ Len(tpl.result.messages) = Len(tpl.template)
    /\ \A i \in 1..Len(tpl.template), k \in AnyKeys \ KeysOf(tpl.inputs) :
         Occurrences(tpl.result.messages[i].content, Marker(k))
           >= Occurrences(tpl.template[i].content, Marker(k))

C17_Witness ==
  /\ tpl.phase = "done"
  /\ tpl.template[1].content = Marker(KeyQ) \o Marker(KeyU)
  /\ KeysOf(tpl.inputs) = {KeyQ, KeyR}
  /\ tpl.result.ok
  /\ Occurrences(tpl.result.messages[1].content, Marker(KeyU)) = 1


\* C19: the calculator fails in exactly two cases, "divide" with num2 = 0
\* ("Cannot divide by zero") and an operation outside add, subtract,
\* multiply, divide ("Invalid operation"); for every other input it returns
\* the sum, difference, product or quotient without error.
C19_CalculatorFailsInTwoCases ==
  calc.phase = "done" =>
    LET a == calc.args
        r == calc.result
    IN CASE a.operation = "divide" /\ a.num2 = 0 ->
              ~r.ok /\ r.error = DivideByZero
         [] a.operation \notin Operations ->
              ~r.ok /\ r.error = InvalidOperation
         [] a.operation = "add" ->
              r.ok /\ r.error = "" /\ r.value = a.num1 + a.num2
         [] a.operation = "subtract" ->
              r.ok /\ r.error = "" /\ r.value = a.num1 - a.num2
         [] a.operation = "multiply" ->
              r.ok /\ r.error = "" /\ r.value = a.num1 * a.num2
         [] OTHER ->
              r.ok /\ r.error = "" /\ r.value * a.num2 = a.num1
C19_Witness ==
  /\ calc.phase = "done"
  /\ calc.args.operation = "divide"
  /\ calc.args.num2 = 0
  /\ calc.result.error = DivideByZero


\* C20: the decorator-instrumented agent and the manually logged agent are
\* the same agent: on the same lines and the same completions (one with
\* several tool calls included) both print the same replies and hold the
\* same message history.
C20_SameRepliesAndHistory ==
  duo.phase # "idle" =>
    /\ duo.manual.printed = duo.decorators.printed
    /\ duo.manual.messages = duo.decorators.messages


(* ---------- claims about trace ids ---------- *)
Spans == { i \in 1..Len(pipe.logs) : pipe.logs[i].kind \in {"tool", "prompt"} }
Traces == { i \in 1..Len(pipe.logs) : pipe.logs[i].kind = "flow" }

\* every span of a run carries the id of the trace that run opened, and that
\* trace was opened before the span was logged
SpansCarryOwnTrace ==
  \A i \in Spans :
    \E t \in Traces :
      /\ t < i
      /\ pipe.logs[t].run = pipe.logs[i].run
      /\ pipe.logs[i].trace_parent_id = pipe.logs[t].id

\* one trace per run, and no two runs share a trace id
OwnTracePerRun ==
  \A t, u \in Traces :
    t # u => /\ pipe.logs[t].run # pipe.logs[u].run
             /\ pipe.logs[t].id # pipe.logs[u].id

\* a log, once recorded, keeps its id, its run and its trace parent
ParentNeverChanges ==
  pipe.phase # "idle" =>
    /\ Len(pipe'.logs) >= Len(pipe.logs)
    /\ \A i \in 1..Len(pipe.logs) :
         /\ pipe'.logs[i].id = pipe.logs[i].id
         /\ pipe'.logs[i].run = pipe.logs[i].run
         /\ pipe'.logs[i].trace_parent_id = pipe.logs[i].trace_parent_id

\* C18: each pipeline run has its own trace id, generated when its trace is
\* opened; every span logged during the run carries exactly that id as its
\* trace parent, is never attached to another run's trace, and its trace
\* parent never changes.
C18_SpansCarryOwnTraceId ==
  /\ [](pipe.phase # "idle" => SpansCarryOwnTrace /\ OwnTracePerRun)
  /\ [][ParentNeverChanges]_vars
C18_Witness ==
  /\ pipe.phase = "loop"
  /\ pipe.run = 2
  /\ Len(pipe.logs) = 6
  /\ pipe.logs[6].trace_parent_id = pipe.logs[4].id
  /\ pipe.logs[3].trace_parent_id = pipe.logs[1].id
  /\ pipe.logs[4].id # pipe.logs[1].id


(* ---------- claims about the timed pipeline run ---------- *)
TimedSpans ==
  IF pipe.phase = "idle" THEN {}
  ELSE { i \in 1..Len(pipe.logs) : pipe.logs[i].kind \in {"tool", "prompt"} }
SpanOfKind(kind) ==
  CHOOSE i \in 1..Len(pipe.logs) : pipe.logs[i].kind = kind

\* C21: every tool log and prompt log sent by the RAG pipeline carries
\* start_time <= end_time.
C21_EndNotBeforeStart ==
  \A i \in TimedSpans : pipe.logs[i].start_time <= pipe.logs[i].end_time
C21_Witness ==
  /\ pipe.phase = "returned"
  /\ Cardinality(TimedSpans) = 2
  /\ \E i \in TimedSpans : pipe.logs[i].start_time < pipe.logs[i].end_time
  /\ \E i \in TimedSpans : pipe.logs[i].start_time = pipe.logs[i].end_time

\* C22: the spans of one run do not overlap and are ordered by open time:
\* the prompt span's start_time is not earlier than the retrieval tool
\* span's end_time, and the two spans never share a start time.
C22_SpansDoNotOverlap ==
  Cardinality(TimedSpans) = 2 =>
    LET tool == pipe.logs[SpanOfKind("tool")]
        prompt == pipe.logs[SpanOfKind("prompt")]
    IN /\ prompt.start_time >= tool.end_time
       /\ prompt.start_time # tool.start_time


(* ---------- claims about the message history ---------- *)
AlternatingHistory(msgs) ==
  /\ Len(msgs) >= 1
  /\ msgs[1] = Message("system", SystemPrompt)
  /\ \A i \in 2..Len(msgs) :
       msgs[i].role = IF i % 2 = 0 THEN "user" ELSE "assistant"

\* C23: at every loop head the history is one system message followed by
\* strictly alternating user and assistant messages, of length 1 + 2n after n
\* completed turns; the model is only called with a history whose last
\* message has role user; callModel never changes the caller's history (the
\* prompt log gets a copy with the reply appended); and at trace close the
\* logged output holds exactly those 1 + 2n messages.
C23_HistoryInvariant ==
  /\ [](pc = "question" =>
          AlternatingHistory(messages) /\ Len(messages) = 1 + 2 * Len(printed))
  /\ [](pc \in {"callModel", "promptLog"} =>
          /\ Last(messages).role = "user"
          /\ Len(messages) = 2 + 2 * Len(printed))
  /\ [][pc = "callModel" => messages' = messages]_vars
  /\ [](\A i \in 1..Len(sinkLogs) :
          sinkLogs[i].kind = "prompt" =>
            /\ Last(sinkLogs[i].messages).role = "assistant"
            /\ SubSeq(sinkLogs[i].messages, 1, Len(sinkLogs[i].messages) - 1)
                 = SubSeq(messages, 1, Len(sinkLogs[i].messages) - 1))
  /\ [](traceStatus = "complete" =>
          /\ traceOutput = StringifyMessages(messages)
          /\ Len(traceOutput) = 1 + 2 * Len(printed)
          /\ AlternatingHistory(messages))
C23_Witness ==
  /\ traceStatus = "complete"
  /\ Len(printed) = 2
  /\ Len(traceOutput) = 5
  /\ messages[5] = Message("assistant", "")


(* ---------- claims about the logs of one callModel invocation ---------- *)
NewEntries(before, after) == SubSeq(after, Len(before) + 1, Len(after))

\* the calculator invocations and the logs sent during the step
StepInvocations == NewEntries(invocations, invocations')
StepLogs == NewEntries(issued, issued')

\* the step is callModel run on `output` up to its prompts.log call
CallModelRanOn(output) ==
  /\ Len(StepInvocations) = Len(output.tool_calls)
  /\ \A i \in 1..Len(StepInvocations) :
       StepInvocations[i].args = output.tool_calls[i]
  /\ llmResponse' = IF output.hasToolCalls /\ output.tool_calls # <<>>
                    THEN ToolReply(ToolName, Last(StepInvocations).value)
                    ELSE output.content

\* C24: each completed callModel invocation sends exactly one prompt log and
\* exactly one tool log per tool call of the model output (none when the
\* model answered with text), each tool log carrying that call's arguments
\* and result.
C24_OneLogPerCall ==
  [][pc = "callModel" /\ pc' = "promptLog" =>
       /\ \E output \in ModelOutputs : CallModelRanOn(output)
       /\ \A output \in ModelOutputs :
            CallModelRanOn(output) =>
              /\ Len(StepLogs) = Len(output.tool_calls) + 1
              /\ Last(StepLogs).kind = "prompt"
              /\ \A i \in 1..Len(output.tool_calls) :
                   /\ StepLogs[i].kind = "tool"
                   /\ StepLogs[i].inputs = output.tool_calls[i]
                   /\ calculator(output.tool_calls[i]).ok
                   /\ StepLogs[i].output =
                        StringifyNumber(calculator(output.tool_calls[i]).value)]_vars
C24_Witness ==
  /\ pc = "promptLog"
  /\ Len(issued) = 3
  /\ issued[1].kind = "tool" /\ issued[2].kind = "tool"
  /\ issued[1].inputs # issued[2].inputs
  /\ issued[3].kind = "prompt"


C26_LogCarriesDatapointInputs ==
  pipe.phase # "idle" =>
    \A i \in 1..Len(pipe.logs) :
      LET d == pipe.datapoints[pipe.logs[i].source_datapoint_id]
      IN /\ pipe.logs[i].inputs = d.inputs
         /\ pipe.logs[i].output = pipe.answers[d.id]


\* C27: the two evaluators agree: for every log output and every target,
\* exactMatch returns true if and only if the levenshtein evaluator returns
\* 0, both normalizing the generated text only, with the same extractAnswer.
C27_EvaluatorsAgree ==
  /\ ev.phase = "exactMatch" =>
       (ev.exact <=> levenshtein(ev.output, ev.target) = 0)
  /\ ev.phase = "levenshtein" =>
       ((ev.dist = 0) <=> exactMatch(ev.output, ev.target))
C27_Witness ==
  /\ ev.phase = "levenshtein"
  /\ ev.dist = 0
  /\ ev.output # ev.target
  /\ ev.answer = ev.target


\* C28: manual instrumentation does not change the pipeline's result and
\* follows the open-log-close protocol: when all Sink calls succeed the
\* logged pipeline sends the model the same messages and returns the same
\* answer as the uninstrumented ask_question for the same inputs, document
\* and completion; the flow log is created before any child log, both child
\* logs are sent before the trace is marked complete, and the output stored
\* on the trace equals the returned answer.
C28_InstrumentationPreservesResult ==
  pipe.phase # "idle" =>
    /\ \A i \in TimedSpans :
         /\ i > 1
         /\ pipe.logs[1].kind = "flow"
         /\ pipe.logs[i].trace_parent_id = pipe.logs[1].id
    /\ \A i \in 1..Len(pipe.logs) :
         pipe.logs[i].trace_status = "complete" =>
           /\ \E t \in TimedSpans : pipe.logs[t].kind = "tool"
           /\ \E t \in TimedSpans : pipe.logs[t].kind = "prompt"
           /\ pipe.phase = "returned"
    /\ pipe.phase = "returned" =>
         LET plain == ask_question(pipe.question, pipe.retrieved_data, pipe.output)
         IN /\ pipe.returned = plain.returned
            /\ pipe.messages = plain.messages
            /\ pipe.logs[1].trace_status = "complete"
            /\ pipe.logs[1].output = pipe.returned
            /\ pipe.logs[SpanOfKind("prompt")].output = pipe.returned
C28_Witness ==
  /\ pipe.phase = "returned"
  /\ pipe.variant = "with_logging"
  /\ pipe.returned = "B"
  /\ pipe.logs[1].output = "B"
  /\ Len(pipe.logs) = 3

====
